---- MODULE Spec2Model ----
(***************************************************************************)
(* A model of get_papers_list.py: the PubMed search / batched fetch /      *)
(* per-paper processing pipeline and the affiliation classifier.           *)
(*                                                                         *)
(* Python strings are sequences of one-character strings, so that lower(), *)
(* substring containment, split() and strip() are computed as Python       *)
(* computes them.  Python values of unknown shape (the nested records the  *)
(* remote source returns) are tagged records: [t |-> tag, v |-> payload].  *)
(***************************************************************************)
EXTENDS Integers, Sequences, FiniteSets, TLC

VARIABLES
    (* main / search_pubmed / fetch_paper_details *)
    stage,            \* where main() is: "Searching","Fetching","Processing","Output","Done","Crashed"
    exit_code,        \* -1 while running, else the process's exit status
    pmids,            \* the identifier list returned by search_pubmed
    source,           \* which record table the remote source serves
    i,                \* fetch_paper_details: loop variable of range(0, len(pmids), batch_size)
    fetch_calls,      \* the Entrez.efetch calls issued so far: <<first id, last id, outcome>>
    (* process_papers *)
    papers_data,      \* the list of raw records (fetch output, process input)
    pc,               \* process_papers: "idle","paper","authors","emit","returned","raised"
    pidx,             \* index of the paper being processed
    authors,          \* the coerced author list of the current paper
    aidx,             \* index of the next author to visit
    row,              \* pmid / title / publication_date of the current paper
    non_academic_authors_list,
    company_affiliations_list,
    corresponding_author_email,
    has_non_academic_author,
    author_email,     \* the email extracted for the author visited last
    results,          \* the summary rows appended so far
    log,              \* the logger.warning / logger.error lines written so far
    (* is_non_academic and the publication date, applied as pure functions *)
    fn_in,            \* the arguments drawn for the function under check
    fn_out            \* its result, once applied

vars == <<stage, exit_code, pmids, source, i, fetch_calls, papers_data, pc, pidx,
          authors, aidx, row, non_academic_authors_list, company_affiliations_list,
          corresponding_author_email, has_non_academic_author, author_email,
          results, log, fn_in, fn_out>>

mainVars == <<stage, exit_code, pmids, source, i, fetch_calls>>
procVars == <<papers_data, pc, pidx, authors, aidx, row, non_academic_authors_list,
              company_affiliations_list, corresponding_author_email,
              has_non_academic_author, author_email, results, log>>
fnVars == <<fn_in, fn_out>>

-----------------------------------------------------------------------------
(* Python str operations *)

\* the lower-case letter of every upper-case letter
LowerOf ==
    [A |-> "a", B |-> "b", C |-> "c", D |-> "d", E |-> "e", F |-> "f", G |-> "g",
     H |-> "h", I |-> "i", J |-> "j", K |-> "k", L |-> "l", M |-> "m", N |-> "n",
     O |-> "o", P |-> "p", Q |-> "q", R |-> "r", S |-> "s", T |-> "t", U |-> "u",
     V |-> "v", W |-> "w", X |-> "x", Y |-> "y", Z |-> "z"]

\* str.lower() on one character
LowerChar(c) == IF c \in DOMAIN LowerOf THEN LowerOf[c] ELSE c

\* str.lower()
Lower(s) == [k \in 1..Len(s) |-> LowerChar(s[k])]

\* `sub in s` for two strings
Contains(s, sub) ==
    \E k \in 0..(Len(s) - Len(sub)) :
        \A j \in 1..Len(sub) : s[k + j] = sub[j]

IsSpace(c) == c \in {" ", "\t", "\n"}

\* s.strip(chars): drop leading and trailing characters that are in cs
StripChars(s, cs) ==
    IF \A k \in 1..Len(s) : s[k] \in cs THEN <<>>
    ELSE LET lo == CHOOSE k \in 1..Len(s) :
                       /\ s[k] \notin cs
                       /\ \A j \in 1..(k - 1) : s[j] \in cs
             hi == CHOOSE k \in 1..Len(s) :
                       /\ s[k] \notin cs
                       /\ \A j \in (k + 1)..Len(s) : s[j] \in cs
         IN  SubSeq(s, lo, hi)

\* s.strip()
Strip(s) == StripChars(s, {" ", "\t", "\n"})

\* s.split(',')[0]: the text before the first comma, the whole text if none
BeforeFirstComma(s) ==
    IF \E k \in 1..Len(s) : s[k] = ","
    THEN LET c == CHOOSE k \in 1..Len(s) :
                      s[k] = "," /\ \A j \in 1..(k - 1) : s[j] # ","
         IN  SubSeq(s, 1, c - 1)
    ELSE s

\* s.split(): the maximal runs of non-whitespace characters, in order
RECURSIVE SplitWords(_)
SplitWords(s) ==
    IF \A k \in 1..Len(s) : IsSpace(s[k]) THEN <<>>
    ELSE LET lo == CHOOSE k \in 1..Len(s) :
                       ~IsSpace(s[k]) /\ \A j \in 1..(k - 1) : IsSpace(s[j])
             hi == CHOOSE k \in lo..Len(s) :
                       /\ \A j \in lo..k : ~IsSpace(s[j])
                       /\ (k = Len(s) \/ IsSpace(s[k + 1]))
         IN  <<SubSeq(s, lo, hi)>> \o SplitWords(SubSeq(s, hi + 1, Len(s)))

\* sep.join(parts)
RECURSIVE Join(_, _)
Join(sep, parts) ==
    IF parts = <<>> THEN <<>>
    ELSE IF Len(parts) = 1 THEN parts[1]
    ELSE parts[1] \o sep \o Join(sep, Tail(parts))

SemiSpace == <<";", " ">>

-----------------------------------------------------------------------------
(* Configuration: get_papers_list.py lines 17-23 *)

COMPANY_KEYWORDS == <<
    <<"i","n","c">>, <<"l","t","d">>, <<"l","l","c">>, <<"c","o","r","p">>,
    <<"c","o","r","p","o","r","a","t","i","o","n">>, <<"p","h","a","r","m","a">>,
    <<"p","h","a","r","m","a","c","e","u","t","i","c","a","l","s">>,
    <<"b","i","o","t","e","c","h">>,
    <<"t","h","e","r","a","p","e","u","t","i","c","s">>,
    <<"d","i","a","g","n","o","s","t","i","c","s">>,
    <<"b","i","o","s","c","i","e","n","c","e","s">>,
    <<"g","m","b","h">>, <<"a","g">>, <<"b","v">>,
    <<"s",".","a",".">>, <<"s",".","l",".">>, <<"s",".","r",".","l",".">> >>

ACADEMIC_DOMAINS == << <<".","e","d","u">>, <<".","a","c",".">>, <<".","o","r","g">> >>

-----------------------------------------------------------------------------
(* Python values *)

PyNone == [t |-> "none", v |-> <<>>]
PyStr(s) == [t |-> "str", v |-> s]
PyInt(n) == [t |-> "int", v |-> n]
PyList(xs) == [t |-> "list", v |-> xs]
PyDict(f) == [t |-> "dict", v |-> f]
EmptyDict == [t |-> "dict", v |-> [k \in {} |-> PyNone]]

\* truthiness of a value: None, '' , [] and {} are false
Truthy(x) ==
    CASE x.t = "none" -> FALSE
      [] x.t = "str"  -> x.v # <<>>
      [] x.t = "list" -> x.v # <<>>
      [] x.t = "dict" -> DOMAIN x.v # {}
      [] x.t = "int"  -> x.v # 0
      [] OTHER -> TRUE

-----------------------------------------------------------------------------
(* is_non_academic: lines 92-124 *)

HasCompanyKeyword(affiliation_lower) ==
    \E k \in 1..Len(COMPANY_KEYWORDS) : Contains(affiliation_lower, COMPANY_KEYWORDS[k])

\* The variant the comment at line 120 considers: a non-academic email alone
\* makes the author non-academic.
is_non_academic_email_only(affiliation, email) ==
    LET affiliation_lower == Lower(affiliation)
        email_lower == IF Truthy(email) THEN Lower(email.v) ELSE <<>>
        is_academic_domain ==
            \E k \in 1..Len(ACADEMIC_DOMAINS) : Contains(email_lower, ACADEMIC_DOMAINS[k])
    IN  IF HasCompanyKeyword(affiliation_lower)
        THEN [is_na |-> TRUE, company_name |-> PyStr(Strip(BeforeFirstComma(affiliation)))]
        ELSE IF Truthy(email) /\ ~is_academic_domain
        THEN [is_na |-> TRUE, company_name |-> PyNone]
        ELSE [is_na |-> FALSE, company_name |-> PyNone]

\* affiliation is a string, email is None or a string.  The result is the
\* pair (is_non_academic, company_name_guess).
is_non_academic(affiliation, email) ==
    LET affiliation_lower == Lower(affiliation)
        email_lower == IF Truthy(email) THEN Lower(email.v) ELSE <<>>
        is_academic_domain ==
            \E k \in 1..Len(ACADEMIC_DOMAINS) : Contains(email_lower, ACADEMIC_DOMAINS[k])
    IN  \* Heuristic 1 (lines 101-106)
        IF HasCompanyKeyword(affiliation_lower)
        THEN [is_na |-> TRUE, company_name |-> PyStr(Strip(BeforeFirstComma(affiliation)))]
        \* Heuristic 2 (lines 109-116)
        ELSE IF Truthy(email) /\ ~is_academic_domain /\ HasCompanyKeyword(affiliation_lower)
        THEN [is_na |-> TRUE, company_name |-> PyStr(Strip(BeforeFirstComma(affiliation)))]
        ELSE [is_na |-> FALSE, company_name |-> PyNone]

-----------------------------------------------------------------------------
(* dict access *)

\* d.get(k, default) on a dict d
DictGet(d, k, default) == IF k \in DOMAIN d.v THEN d.v[k] ELSE default

\* str(x) as an f-string renders a field value; only strings and None occur
Format(x) == IF x.t = "str" THEN x.v ELSE IF x.t = "none" THEN <<"N","o","n","e">> ELSE <<"?">>

-----------------------------------------------------------------------------
(* publication date: lines 142-145 *)

\* pub_date_info is a dict; the result is the Publication Date string
publication_date(pub_date_info) ==
    LET pub_year  == DictGet(pub_date_info, "Year", PyStr(<<>>))
        pub_month == DictGet(pub_date_info, "Month", PyStr(<<>>))
        pub_day   == DictGet(pub_date_info, "Day", PyStr(<<>>))
    IN  StripChars(Format(pub_year) \o <<"-">> \o Format(pub_month) \o <<"-">>
                   \o Format(pub_day), {"-"})

-----------------------------------------------------------------------------
(* Inputs of the function-level specifications *)

MaxAffLen == 3

AffAlphabet == {"a", "g", "A", "G", "b", "v", ",", " "}

AffTexts == UNION {[1..n -> AffAlphabet] : n \in 0..MaxAffLen}

EmailArgs == <<PyNone,
               PyStr(<<>>),
               PyStr(<<"a","@","u",".","e","d","u">>),
               PyStr(<<"a","@","a","g",".","c","o","m">>),
               PyStr(<<"B","@","X",".","O","R","G">>)>>

Years  == <<<<>>, <<"2","0","2","0">>, <<"1","9","9","9">>, <<"2","0","2","4">>>>
Months == <<<<>>, <<"J","a","n">>, <<"1","2">>, <<"6">>>>
Days   == <<<<>>, <<"0","5">>, <<"3","1">>, <<"7">>>>
DateKeys == {"Year", "Month", "Day"}

MkPubDate(keys, y, m, d) ==
    PyDict([k \in keys |-> PyStr(IF k = "Year" THEN Years[y]
                                 ELSE IF k = "Month" THEN Months[m] ELSE Days[d])])

-----------------------------------------------------------------------------
(* process_papers, the fields of one paper: lines 133-149 *)

IsDict(x) == x.t = "dict"
IsList(x) == x.t = "list"

Raised == [raised |-> TRUE]

\* isinstance(x, list) coercion of lines 148-149 and 166
AsList(x) == IF IsList(x) THEN x.v ELSE <<x>>

\* Lines 133-149.  Calling .get on a value that is not a dict raises; the
\* order of the tests is the order of the statements.
paper_fields(paper) ==
    IF ~IsDict(paper) THEN Raised                                    \* 133
    ELSE LET medline_citation == DictGet(paper, "MedlineCitation", EmptyDict) IN
    IF ~IsDict(medline_citation) THEN Raised                         \* 134
    ELSE LET article     == DictGet(medline_citation, "Article", EmptyDict)
             pubmed_data == DictGet(paper, "PubmedData", EmptyDict) IN
    IF ~IsDict(pubmed_data) THEN Raised                              \* 136
    ELSE IF ~IsDict(article) THEN Raised                             \* 139
    ELSE LET journal == DictGet(article, "Journal", EmptyDict) IN
    IF ~IsDict(journal) THEN Raised                                  \* 140
    ELSE LET journal_issue == DictGet(journal, "JournalIssue", EmptyDict) IN
    IF ~IsDict(journal_issue) THEN Raised                            \* 140
    ELSE LET pub_date_info == DictGet(journal_issue, "PubDate", EmptyDict) IN
    IF ~IsDict(pub_date_info) THEN Raised                            \* 142
    ELSE [raised           |-> FALSE,
          pmid             |-> DictGet(medline_citation, "PMID", PyStr(<<>>)),
          title            |-> DictGet(article, "ArticleTitle", PyStr(<<>>)),
          publication_date |-> publication_date(pub_date_info),
          authors          |-> AsList(DictGet(article, "AuthorList", PyList(<<>>)))]

UNKNOWN == <<"U","N","K","N","O","W","N">>

\* Line 217, evaluated inside the except clause: it raises again when paper
\* or its MedlineCitation is not a dict.
pmid_for_error(paper) ==
    IF ~IsDict(paper) THEN Raised
    ELSE LET medline_citation == DictGet(paper, "MedlineCitation", EmptyDict) IN
    IF ~IsDict(medline_citation) THEN Raised
    ELSE [raised |-> FALSE, pmid |-> DictGet(medline_citation, "PMID", PyStr(UNKNOWN))]

-----------------------------------------------------------------------------
(* process_papers, one author: lines 159-190 *)

EmailPunct == {"(", ")", ".", ",", ";"}
At == <<"@">>

\* Lines 181-185: the first whitespace-delimited word holding '@', stripped
first_email_word(affil_text) ==
    LET words == SplitWords(affil_text)
        w == CHOOSE k \in 1..Len(words) :
                 Contains(words[k], At) /\ \A j \in 1..(k - 1) : ~Contains(words[j], At)
    IN  StripChars(words[w], EmailPunct)

\* Lines 174-185, the loop over affiliation_info from entry k on.
\* acc = [raised, texts, email]
RECURSIVE affil_loop(_, _, _)
affil_loop(affiliation_info, k, acc) ==
    IF k > Len(affiliation_info) THEN acc
    ELSE LET affil == affiliation_info[k] IN
         IF ~IsDict(affil) THEN affil_loop(affiliation_info, k + 1, acc)      \* 175
         ELSE LET affil_text == DictGet(affil, "Affiliation", PyStr(<<>>)) IN
              IF affil_text.t # "str" THEN Raised                             \* 179 / 186
              ELSE affil_loop(affiliation_info, k + 1,
                       [raised |-> FALSE,
                        texts  |-> Append(acc.texts, affil_text.v),
                        email  |-> IF Contains(affil_text.v, At)
                                   THEN PyStr(first_email_word(affil_text.v))
                                   ELSE acc.email])

\* Lines 161-186 for an author that is a dict
author_fields(author) ==
    LET last_name == DictGet(author, "LastName", PyStr(<<>>))
        fore_name == DictGet(author, "ForeName", PyStr(<<>>))
        affiliation_info == AsList(DictGet(author, "AffiliationInfo", PyList(<<>>)))
        scan == affil_loop(affiliation_info, 1,
                           [raised |-> FALSE, texts |-> <<>>, email |-> PyNone])
    IN  IF scan.raised THEN Raised
        ELSE [raised             |-> FALSE,
              author_name        |-> Strip(Format(fore_name) \o <<" ">> \o Format(last_name)),
              author_affiliation |-> Join(SemiSpace, scan.texts),
              author_email       |-> scan.email]

\* Line 195 without the membership test
company_list_no_dedup(list, company_name) ==
    IF Truthy(company_name) THEN Append(list, company_name.v) ELSE list

\* Lines 195-196
company_list_update(list, company_name) ==
    IF Truthy(company_name) /\ ~(\E k \in 1..Len(list) : list[k] = company_name.v)
    THEN Append(list, company_name.v) ELSE list

\* Line 201 without `not corresponding_author_email`
corresponding_last_wins(current, email) ==
    IF Truthy(email) THEN email ELSE current

\* Lines 201-202
corresponding_update(current, email) ==
    IF Truthy(email) /\ ~Truthy(current) THEN email ELSE current

\* Line 206 with the test dropped
include_paper_always(has_non_academic) == TRUE

\* Line 206
include_paper(has_non_academic) == has_non_academic

NA == <<"N","/","A">>

\* Lines 207-214
summary_row(r, names, companies, email) ==
    [PubMedID                   |-> r.pmid,
     Title                      |-> r.title,
     Publication_Date           |-> r.publication_date,
     Non_academic_Authors       |-> Join(SemiSpace, names),
     Company_Affiliations       |-> Join(SemiSpace, companies),
     Corresponding_Author_Email |-> IF Truthy(email) THEN email.v ELSE NA]

-----------------------------------------------------------------------------
(* Raw records the specifications feed to process_papers *)

Affil(text) == PyDict([Affiliation |-> PyStr(text)])

AuthorTable == <<
    \* 1: names only, no AffiliationInfo at all
    PyDict([ForeName |-> PyStr(<<"A">>), LastName |-> PyStr(<<"L","e","e">>)]),
    \* 2: company, no email
    PyDict([ForeName |-> PyStr(<<"B">>), LastName |-> PyStr(<<"R","o","y">>),
            AffiliationInfo |-> PyList(<<Affil(<<"N","o","v","a","r","t","i","s"," ","A","G">>)>>)]),
    \* 3: a non-mapping entry inside AffiliationInfo, then the same company
    \*    with a city and an email in punctuation
    PyDict([ForeName |-> PyStr(<<"C">>), LastName |-> PyStr(<<"S","u","n">>),
            AffiliationInfo |-> PyList(<<PyStr(<<"j","u","n","k">>), Affil(<<"N","o","v","a","r","t","i","s"," ","A","G",","," ","B","a","s","e","l"," ","(","x","@","n",".","c","o","m",")",".">>)>>)]),
    \* 4: academic with an email; AffiliationInfo is a single mapping, not a list
    PyDict([ForeName |-> PyStr(<<"D">>), LastName |-> PyStr(<<"T","a","n">>),
            AffiliationInfo |-> Affil(<<"M","I","T"," ","j","@","m","i","t",".","e","d","u">>)]),
    \* 5: two affiliation strings, each with an email
    PyDict([ForeName |-> PyStr(<<"E">>), LastName |-> PyStr(<<"U","r","y">>),
            AffiliationInfo |-> PyList(<<Affil(<<"U","n","i"," ","a","@","u",".","e","d","u">>), Affil(<<"R","o","c","h","e"," ","L","t","d",","," ","b","@","r",".","c","o","m",";">>)>>)]),
    \* 6: an author entry that is not a mapping
    PyStr(<<"j","u","n","k">>),
    \* 7: an Affiliation value that is not a string
    PyDict([ForeName |-> PyStr(<<"F">>), LastName |-> PyStr(<<"V","o","s","s">>),
            AffiliationInfo |-> PyList(<<PyDict([Affiliation |-> PyNone])>>)]),
    \* 8: a company keyword after a leading comma; no ForeName
    PyDict([LastName |-> PyStr(<<"K","i","m">>),
            AffiliationInfo |-> PyList(<<Affil(<<","," ","A","G">>)>>)]) >>

MaxAuthors == 2
MaxPapers == 2

\* the author lists of at most MaxAuthors entries, as index tuples into AuthorTable
AuthorChoices == UNION {[1..n -> 1..Len(AuthorTable)] : n \in 0..MaxAuthors}

AuthorsAt(choice) == [k \in 1..Len(choice) |-> AuthorTable[choice[k]]]

Digits == <<"0","1","2","3","4","5","6","7","8","9">>

\* the decimal numeral of n
RECURSIVE Decimal(_)
Decimal(n) ==
    IF n < 10 THEN <<Digits[n + 1]>>
    ELSE Decimal(n \div 10) \o <<Digits[(n % 10) + 1]>>

PmidAt(pos) == PyStr(Decimal(pos))

FullDate == MkPubDate(DateKeys, 2, 2, 2)

\* a record of the shape Entrez returns, with PMID `pos`
FullPaper(pos, author_list) ==
    PyDict([MedlineCitation |->
                PyDict([PMID |-> PmidAt(pos),
                        Article |->
                            PyDict([ArticleTitle |-> PyStr(<<"T">>),
                                    Journal |-> PyDict([JournalIssue |->
                                                   PyDict([PubDate |-> FullDate])]),
                                    AuthorList |-> author_list])]),
            PubmedData |-> PyDict([ArticleIdList |-> PyList(<<>>)])])

\* a record with every optional key missing
BarePaper(author_list) ==
    PyDict([MedlineCitation |-> PyDict([Article |-> PyDict([AuthorList |-> author_list])])])

CompanyAuthor == AuthorTable[2]

\* records of unexpected shape; each lists one company author where it can
ShapeTable(pos) == <<
    \* 1: the record is not a mapping
    PyStr(<<"j","u","n","k">>),
    \* 2: MedlineCitation is not a mapping
    PyDict([MedlineCitation |-> PyNone]),
    \* 3: Article is not a mapping
    PyDict([MedlineCitation |-> PyDict([PMID |-> PmidAt(pos), Article |-> PyStr(<<"j","u","n","k">>)])]),
    \* 4: Article is not a mapping and there is no PMID
    PyDict([MedlineCitation |-> PyDict([Article |-> PyNone])]),
    \* 5: PubmedData is not a mapping
    PyDict([MedlineCitation |->
                PyDict([PMID |-> PmidAt(pos),
                        Article |-> PyDict([AuthorList |-> PyList(<<CompanyAuthor>>)])]),
            PubmedData |-> PyNone]),
    \* 6: Journal is not a mapping
    PyDict([MedlineCitation |->
                PyDict([PMID |-> PmidAt(pos),
                        Article |-> PyDict([Journal |-> PyStr(<<"j","u","n","k">>),
                                            AuthorList |-> PyList(<<CompanyAuthor>>)])])]),
    \* 7: PubDate is not a mapping
    PyDict([MedlineCitation |->
                PyDict([PMID |-> PmidAt(pos),
                        Article |-> PyDict([Journal |-> PyDict([JournalIssue |->
                                                       PyDict([PubDate |-> PyNone])]),
                                            AuthorList |-> PyList(<<CompanyAuthor>>)])])]),
    \* 8: AuthorList is a single mapping, not a list
    PyDict([MedlineCitation |->
                PyDict([PMID |-> PmidAt(pos),
                        Article |-> PyDict([AuthorList |-> CompanyAuthor])])]),
    \* 9: no MedlineCitation at all
    PyDict([PubmedData |-> PyDict([ArticleIdList |-> PyList(<<>>)])]),
    \* 10: every optional key missing
    BarePaper(PyList(<<AuthorTable[4], CompanyAuthor>>)) >>

NumShapes == Len(ShapeTable(1))

\* the records that fill the other positions of a list: a paper with a
\* company author and one whose failure is caught
FillerTable(pos) == <<FullPaper(pos, PyList(<<CompanyAuthor>>)),
                      ShapeTable(pos)[3]>>

NumFillers == Len(FillerTable(1))

-----------------------------------------------------------------------------
(* Initial values of the parts a specification does not exercise *)

MainIdle ==
    /\ stage = "NotRunning"
    /\ exit_code = -1
    /\ pmids = <<>>
    /\ source = 0
    /\ i = 0
    /\ fetch_calls = <<>>

ProcLocalsInit ==
    /\ pidx = 1
    /\ authors = <<>>
    /\ aidx = 1
    /\ row = [pmid |-> PyStr(<<>>), title |-> PyStr(<<>>), publication_date |-> <<>>]
    /\ non_academic_authors_list = <<>>
    /\ company_affiliations_list = <<>>
    /\ corresponding_author_email = PyNone
    /\ has_non_academic_author = FALSE
    /\ author_email = PyNone
    /\ results = <<>>
    /\ log = <<>>

ProcIdle ==
    /\ papers_data = <<>>
    /\ pc = "idle"
    /\ ProcLocalsInit

FnIdle ==
    /\ fn_in = [kind |-> "none"]
    /\ fn_out = [kind |-> "none"]

-----------------------------------------------------------------------------
(* process_papers: lines 127-224 *)

\* The except clause, lines 216-220.  When line 217 raises, the exception
\* leaves process_papers.
HandleFailure(paper) ==
    LET h == pmid_for_error(paper) IN
    /\ IF h.raised
       THEN /\ pc' = "raised"
            /\ UNCHANGED <<pidx, log>>
       ELSE /\ log' = Append(log, [level |-> "warning", event |-> "paper", id |-> h.pmid])
            /\ pidx' = pidx + 1
            /\ pc' = "paper"
    /\ UNCHANGED <<papers_data, authors, aidx, row, non_academic_authors_list,
                   company_affiliations_list, corresponding_author_email,
                   has_non_academic_author, author_email, results>>

\* One iteration of `for paper in papers_data` up to line 155
PaperBegin ==
    /\ pc = "paper"
    /\ pidx <= Len(papers_data)
    /\ LET paper == papers_data[pidx]
           f == paper_fields(paper)
       IN  IF f.raised
           THEN HandleFailure(paper)
           ELSE /\ row' = [pmid |-> f.pmid, title |-> f.title,
                           publication_date |-> f.publication_date]
                /\ authors' = f.authors
                /\ aidx' = 1
                /\ non_academic_authors_list' = <<>>
                /\ company_affiliations_list' = <<>>
                /\ corresponding_author_email' = PyNone
                /\ has_non_academic_author' = FALSE
                /\ pc' = "authors"
                /\ UNCHANGED <<papers_data, pidx, author_email, results, log>>
    /\ UNCHANGED <<mainVars, fnVars>>

\* One iteration of `for author in authors`, lines 157-202
AuthorStep ==
    /\ pc = "authors"
    /\ aidx <= Len(authors)
    /\ LET author == authors[aidx] IN
       IF ~IsDict(author)
       THEN /\ aidx' = aidx + 1                                        \* 159
            /\ UNCHANGED <<papers_data, pc, pidx, authors, row, non_academic_authors_list,
                           company_affiliations_list, corresponding_author_email,
                           has_non_academic_author, author_email, results, log>>
       ELSE LET f == author_fields(author) IN
            IF f.raised
            THEN HandleFailure(papers_data[pidx])
            ELSE LET c == is_non_academic(f.author_affiliation, f.author_email) IN
                 /\ author_email' = f.author_email
                 /\ has_non_academic_author' = (has_non_academic_author \/ c.is_na)
                 /\ non_academic_authors_list' =
                        IF c.is_na THEN Append(non_academic_authors_list, f.author_name)
                        ELSE non_academic_authors_list
                 /\ company_affiliations_list' =
                        IF c.is_na
                        THEN company_list_update(company_affiliations_list, c.company_name)
                        ELSE company_affiliations_list
                 /\ corresponding_author_email' =
                        corresponding_update(corresponding_author_email, f.author_email)
                 /\ aidx' = aidx + 1
                 /\ UNCHANGED <<papers_data, pc, pidx, authors, row, results, log>>
    /\ UNCHANGED <<mainVars, fnVars>>

\* Lines 206-214: after the last author
PaperEnd ==
    /\ pc = "authors"
    /\ aidx > Len(authors)
    /\ results' = IF include_paper(has_non_academic_author)
                  THEN Append(results,
                              summary_row(row, non_academic_authors_list,
                                          company_affiliations_list,
                                          corresponding_author_email))
                  ELSE results
    /\ pidx' = pidx + 1
    /\ pc' = "paper"
    /\ UNCHANGED <<papers_data, authors, aidx, row, non_academic_authors_list,
                   company_affiliations_list, corresponding_author_email,
                   has_non_academic_author, author_email, log>>
    /\ UNCHANGED <<mainVars, fnVars>>

\* Lines 223-224: the loop is over, results is returned
ProcessReturn ==
    /\ pc = "paper"
    /\ pidx > Len(papers_data)
    /\ pc' = "returned"
    /\ UNCHANGED <<papers_data, pidx, authors, aidx, row, non_academic_authors_list,
                   company_affiliations_list, corresponding_author_email,
                   has_non_academic_author, author_email, results, log>>
    /\ UNCHANGED <<mainVars, fnVars>>

\* process_papers is called on a list of at most MaxPapers records: one
\* position holds any record of the tables, the others hold one filler.
InitProcess ==
    /\ MainIdle
    /\ FnIdle
    /\ pc = "paper"
    /\ ProcLocalsInit
    /\ \/ papers_data = <<>>
       \/ \E n \in 1..MaxPapers, free \in 1..MaxPapers, fill \in 1..NumFillers :
            /\ free <= n
            /\ \/ \E choice \in AuthorChoices :
                    papers_data =
                      [k \in 1..n |->
                         IF k = free THEN FullPaper(k, PyList(AuthorsAt(choice)))
                         ELSE FillerTable(k)[fill]]
               \/ \E shape \in 1..NumShapes :
                    papers_data =
                      [k \in 1..n |->
                         IF k = free THEN ShapeTable(k)[shape]
                         ELSE FillerTable(k)[fill]]

NextProcess == PaperBegin \/ AuthorStep \/ PaperEnd \/ ProcessReturn

SpecProcess == InitProcess /\ [][NextProcess]_vars

-----------------------------------------------------------------------------
(* What the claims about process_papers speak of, read off the raw record *)

\* the author entries the record lists, whatever else is wrong with it
AuthorsOfRecord(paper) ==
    IF ~IsDict(paper) THEN <<>>
    ELSE LET mc == DictGet(paper, "MedlineCitation", EmptyDict) IN
    IF ~IsDict(mc) THEN <<>>
    ELSE LET art == DictGet(mc, "Article", EmptyDict) IN
    IF ~IsDict(art) THEN <<>>
    ELSE AsList(DictGet(art, "AuthorList", PyList(<<>>)))

RecordPmid(paper) ==
    IF ~IsDict(paper) THEN PyStr(<<>>)
    ELSE LET mc == DictGet(paper, "MedlineCitation", EmptyDict) IN
    IF ~IsDict(mc) THEN PyStr(<<>>) ELSE DictGet(mc, "PMID", PyStr(<<>>))

\* the author entry can be normalized: it is a mapping whose fields do not raise
Normalizable(author) == IsDict(author) /\ ~author_fields(author).raised

\* what is_non_academic answers for an author entry that can be normalized
Classification(author) ==
    LET f == author_fields(author) IN
    is_non_academic(f.author_affiliation, f.author_email)

ClassifiedNonAcademic(author) ==
    /\ IsDict(author)
    /\ LET f == author_fields(author) IN
       /\ ~f.raised
       /\ is_non_academic(f.author_affiliation, f.author_email).is_na

HasNonAcademicAuthor(paper) ==
    LET author_list == AuthorsOfRecord(paper) IN
    \E k \in 1..Len(author_list) : ClassifiedNonAcademic(author_list[k])

\* processing the record raises somewhere in lines 133-202
PaperFails(paper) ==
    \/ paper_fields(paper).raised
    \/ LET author_list == AuthorsOfRecord(paper) IN
       \E k \in 1..Len(author_list) :
          IsDict(author_list[k]) /\ ~Normalizable(author_list[k])

Qualifies(paper) == ~PaperFails(paper) /\ HasNonAcademicAuthor(paper)

RowPmids(rows) == [k \in 1..Len(rows) |-> rows[k].PubMedID]
RecordPmids(papers) == [k \in 1..Len(papers) |-> RecordPmid(papers[k])]

\* the record whose iteration has just ended
JustProcessed == papers_data[pidx - 1]
BetweenPapers == pc \in {"paper", "returned"} /\ pidx > 1

Last(seq) == seq[Len(seq)]

\* keep the first occurrence of every element
RECURSIVE FirstSeen(_)
FirstSeen(seq) ==
    IF seq = <<>> THEN <<>>
    ELSE LET front == FirstSeen(SubSeq(seq, 1, Len(seq) - 1)) IN
         IF \E k \in 1..Len(front) : front[k] = Last(seq) THEN front
         ELSE Append(front, Last(seq))

NoDuplicates(seq) == \A j, k \in 1..Len(seq) : j # k => seq[j] # seq[k]

\* the company_name values is_non_academic returned for the non-academic
\* authors among the first n entries, in author order
RECURSIVE GuessesUpTo(_, _)
GuessesUpTo(author_list, n) ==
    IF n = 0 THEN <<>>
    ELSE LET rest == GuessesUpTo(author_list, n - 1)
             author == author_list[n]
         IN  IF ~IsDict(author) THEN rest
             ELSE LET f == author_fields(author) IN
                  IF f.raised THEN rest
                  ELSE LET c == is_non_academic(f.author_affiliation, f.author_email) IN
                       IF c.is_na THEN Append(rest, c.company_name.v) ELSE rest

NonEmpty(s) == s # <<>>

\* the email the code extracts for author entry k, None if none
ExtractedEmail(author) ==
    IF ~IsDict(author) THEN PyNone
    ELSE LET f == author_fields(author) IN
         IF f.raised THEN PyNone ELSE f.author_email

SomeEmail(author_list) == \E k \in 1..Len(author_list) : Truthy(ExtractedEmail(author_list[k]))

FirstEmailIndex(author_list) ==
    CHOOSE k \in 1..Len(author_list) :
        /\ Truthy(ExtractedEmail(author_list[k]))
        /\ \A j \in 1..(k - 1) : ~Truthy(ExtractedEmail(author_list[j]))

\* the affiliation strings of an author entry, in order
AffiliationStrings(author) ==
    LET infos == AsList(DictGet(author, "AffiliationInfo", PyList(<<>>)))
        IsText(x) == IsDict(x) /\ DictGet(x, "Affiliation", PyStr(<<>>)).t = "str"
        texts == SelectSeq(infos, IsText)
    IN  [k \in 1..Len(texts) |-> DictGet(texts[k], "Affiliation", PyStr(<<>>)).v]

\* the first '@' token found scanning the affiliation strings in order
FirstAffiliationEmail(author) ==
    LET texts == AffiliationStrings(author) IN
    IF \E k \in 1..Len(texts) : Contains(texts[k], At)
    THEN PyStr(first_email_word(texts[CHOOSE k \in 1..Len(texts) :
                   Contains(texts[k], At) /\ \A j \in 1..(k - 1) : ~Contains(texts[j], At)]))
    ELSE PyNone

-----------------------------------------------------------------------------
(* Claims about process_papers, checked under SpecProcess *)

\* C1 as stated: when process_papers returns, the rows are those of exactly
\* the records that list an author is_non_academic classifies non-academic,
\* in input order.
C1_RowIffNonAcademicAuthor ==
    pc = "returned" =>
        RowPmids(results) = RecordPmids(SelectSeq(papers_data, HasNonAcademicAuthor))

\* C1 amended: when process_papers returns, the rows are those of exactly the
\* records whose processing raised no exception and that list an author
\* classified non-academic, in input order; a record whose processing raised
\* has no row even if it lists a non-academic author.
C1_RowIffProcessedAndNonAcademic ==
    pc = "returned" =>
        /\ RowPmids(results) = RecordPmids(SelectSeq(papers_data, Qualifies))
        /\ Len(results) = Cardinality({k \in 1..Len(papers_data) : Qualifies(papers_data[k])})

C1_Witness ==
    /\ pc = "returned"
    /\ Len(papers_data) = 2
    /\ Len(results) = 1
    /\ Qualifies(papers_data[2])
    /\ ~HasNonAcademicAuthor(papers_data[1])
    /\ ~PaperFails(papers_data[1])
    /\ Len(AuthorsOfRecord(papers_data[1])) > 0

\* C2: no exception leaves process_papers, and when it returns every record
\* whose processing raised has its warning in the log.
C2_NoExceptionEscapes ==
    /\ pc # "raised"
    /\ pc = "returned" =>
          Len(log) = Cardinality({k \in 1..Len(papers_data) : PaperFails(papers_data[k])})

\* C6: the row of a paper carries the email of the first author entry, in
\* author order, for which an email was extracted, whatever that author's
\* classification; it is "N/A" exactly when no author entry has one.
C6_CorrespondingEmailIsFirst ==
    (BetweenPapers /\ Qualifies(JustProcessed)) =>
        LET author_list == AuthorsOfRecord(JustProcessed)
            email == Last(results).Corresponding_Author_Email
        IN  /\ SomeEmail(author_list) =>
                  email = ExtractedEmail(author_list[FirstEmailIndex(author_list)]).v
            /\ (email = NA) <=> ~SomeEmail(author_list)

C6_Witness ==
    /\ BetweenPapers
    /\ Qualifies(JustProcessed)
    /\ LET author_list == AuthorsOfRecord(JustProcessed) IN
       /\ Len(author_list) = 2
       /\ Truthy(ExtractedEmail(author_list[1]))
       /\ Truthy(ExtractedEmail(author_list[2]))
       /\ ExtractedEmail(author_list[1]) # ExtractedEmail(author_list[2])
       /\ ~ClassifiedNonAcademic(author_list[1])
       /\ Last(results).Corresponding_Author_Email = ExtractedEmail(author_list[1]).v

\* C7 as stated: while a paper's authors are visited, and in its row, the
\* company list has no duplicate and lists every guess returned for a
\* non-academic author, in first-seen order.
C7_CompaniesAreAllGuessesFirstSeen ==
    /\ pc = "authors" =>
          /\ NoDuplicates(company_affiliations_list)
          /\ company_affiliations_list = FirstSeen(GuessesUpTo(authors, aidx - 1))
    /\ (BetweenPapers /\ Qualifies(JustProcessed)) =>
          Last(results).Company_Affiliations =
              Join(SemiSpace, FirstSeen(GuessesUpTo(AuthorsOfRecord(JustProcessed),
                                                    Len(AuthorsOfRecord(JustProcessed)))))

\* C7 amended: while a paper's authors are visited, and in its row, the
\* company list has no duplicate and lists the non-empty guesses returned
\* for the non-academic authors, in first-seen order; an empty guess (an
\* affiliation with nothing before its first comma) is not listed.
C7_CompaniesAreNonEmptyGuessesFirstSeen ==
    /\ pc = "authors" =>
          /\ NoDuplicates(company_affiliations_list)
          /\ company_affiliations_list =
                 SelectSeq(FirstSeen(GuessesUpTo(authors, aidx - 1)), NonEmpty)
    /\ (BetweenPapers /\ Qualifies(JustProcessed)) =>
          Last(results).Company_Affiliations =
              Join(SemiSpace,
                   SelectSeq(FirstSeen(GuessesUpTo(AuthorsOfRecord(JustProcessed),
                                                   Len(AuthorsOfRecord(JustProcessed)))),
                             NonEmpty))

C7_Witness ==
    /\ pc = "authors"
    /\ aidx = 3
    /\ Len(GuessesUpTo(authors, 2)) = 2
    /\ GuessesUpTo(authors, 2)[1] = GuessesUpTo(authors, 2)[2]
    /\ Len(company_affiliations_list) = 1

\* C10: after an author entry is visited, the email kept for it is the first
\* '@' token found scanning its affiliation strings in order.
C10_EmailIsFirstAcrossAffiliations ==
    (pc = "authors" /\ aidx > 1 /\ IsDict(authors[aidx - 1])) =>
        author_email = FirstAffiliationEmail(authors[aidx - 1])

-----------------------------------------------------------------------------
(* is_non_academic applied to every short affiliation text and every email *)

InitClassify ==
    /\ MainIdle
    /\ ProcIdle
    /\ fn_out = [kind |-> "none"]
    /\ \E a \in AffTexts, e \in 1..Len(EmailArgs) :
          fn_in = [kind |-> "classify", affiliation |-> a, email |-> EmailArgs[e]]

ApplyClassify ==
    /\ fn_in.kind = "classify"
    /\ fn_out.kind = "none"
    /\ fn_out' = [kind |-> "classified",
                  result |-> is_non_academic(fn_in.affiliation, fn_in.email)]
    /\ UNCHANGED <<fn_in, mainVars, procVars>>

NextClassify == ApplyClassify

SpecClassify == InitClassify /\ [][NextClassify]_vars

\* some company keyword occurs in the text, compared case-insensitively
KeywordOccurs(text) ==
    \E k \in 1..Len(COMPANY_KEYWORDS), p \in 1..Len(text) :
        /\ p + Len(COMPANY_KEYWORDS[k]) - 1 <= Len(text)
        /\ \A j \in 1..Len(COMPANY_KEYWORDS[k]) :
              LowerChar(text[p + j - 1]) = COMPANY_KEYWORDS[k][j]

AcademicEmail(email) ==
    \E k \in 1..Len(ACADEMIC_DOMAINS), p \in 1..Len(email.v) :
        /\ p + Len(ACADEMIC_DOMAINS[k]) - 1 <= Len(email.v)
        /\ \A j \in 1..Len(ACADEMIC_DOMAINS[k]) :
              LowerChar(email.v[p + j - 1]) = ACADEMIC_DOMAINS[k][j]

\* C5: is_non_academic answers non-academic exactly when the affiliation,
\* lower-cased, contains a company keyword; without one the answer is
\* academic with no guess; the answer is the same for every email.
C5_NonAcademicIffKeyword ==
    fn_out.kind = "classified" =>
        /\ fn_out.result.is_na <=> KeywordOccurs(fn_in.affiliation)
        /\ ~KeywordOccurs(fn_in.affiliation) => fn_out.result.company_name.t = "none"
        /\ \A e \in 1..Len(EmailArgs) :
              is_non_academic(fn_in.affiliation, EmailArgs[e]) = fn_out.result

C5_Witness ==
    /\ fn_out.kind = "classified"
    /\ fn_in.affiliation # <<>>
    /\ ~KeywordOccurs(fn_in.affiliation)
    /\ Truthy(fn_in.email)
    /\ ~AcademicEmail(fn_in.email)
    /\ ~fn_out.result.is_na

-----------------------------------------------------------------------------
(* The publication date built from every combination of Year, Month, Day *)

InitDate ==
    /\ MainIdle
    /\ ProcIdle
    /\ fn_out = [kind |-> "none"]
    /\ \E keys \in SUBSET DateKeys, y \in 1..Len(Years), m \in 1..Len(Months),
          d \in 1..Len(Days) :
          fn_in = [kind |-> "date", pub_date_info |-> MkPubDate(keys, y, m, d)]

ApplyDate ==
    /\ fn_in.kind = "date"
    /\ fn_out.kind = "none"
    /\ fn_out' = [kind |-> "dated", result |-> publication_date(fn_in.pub_date_info)]
    /\ UNCHANGED <<fn_in, mainVars, procVars>>

NextDate == ApplyDate

SpecDate == InitDate /\ [][NextDate]_vars

\* the components that are present and not empty, in Year, Month, Day order
PresentComponents(pub_date_info) ==
    SelectSeq(<<DictGet(pub_date_info, "Year", PyStr(<<>>)).v,
                DictGet(pub_date_info, "Month", PyStr(<<>>)).v,
                DictGet(pub_date_info, "Day", PyStr(<<>>)).v>>, NonEmpty)

Dash == <<"-">>

\* C8: the date string is the present components joined by single '-'
\* separators: no leading, trailing or doubled '-'.
C8_DateHasNoDanglingSeparator ==
    fn_out.kind = "dated" =>
        /\ fn_out.result = Join(Dash, PresentComponents(fn_in.pub_date_info))
        /\ fn_out.result # <<>> =>
              /\ fn_out.result[1] # "-"
              /\ Last(fn_out.result) # "-"
        /\ ~Contains(fn_out.result, <<"-", "-">>)

-----------------------------------------------------------------------------
(* The remote source: what Entrez.read returns for one efetch call *)

batch_size == 100

MaxIds == 251

\* the sizes of the identifier list a search returns
SearchSizes == {0, 1, 2, batch_size - 1, batch_size, batch_size + 1, 2 * batch_size,
                2 * batch_size + batch_size \div 2, MaxIds}

NumSources == 6

\* the record the source holds for identifier id.  Source 5 also holds
\* records of unexpected shape.
SourceRecord(src, id) ==
    IF src = 5 /\ id % 4 = 2 THEN ShapeTable(id)[3]
    ELSE IF src = 5 /\ id % 4 = 3 THEN ShapeTable(id)[2]
    ELSE IF id % 3 = 0 THEN FullPaper(id, PyList(<<CompanyAuthor>>))
    ELSE IF id % 3 = 1 THEN FullPaper(id, PyList(<<AuthorTable[1]>>))
    ELSE FullPaper(id, PyList(<<AuthorTable[4], AuthorTable[3]>>))

Reverse(seq) == [k \in 1..Len(seq) |-> seq[Len(seq) + 1 - k]]

\* the identifiers the source answers for, in response order
ResolvedIds(src, ids) ==
    CASE src = 2 -> Tail(ids)              \* the first identifier does not resolve
      [] src = 3 -> <<ids[1]>>             \* one article only
      [] src = 4 -> <<>>                   \* none
      [] src = 6 -> Reverse(ids)           \* response order differs from request order
      [] OTHER   -> ids

\* the parsed response: a mapping whose PubmedArticle is a list, a single
\* article (source 3) or missing (source 4)
SourceResponse(src, ids) ==
    LET recs == [k \in 1..Len(ResolvedIds(src, ids)) |->
                    SourceRecord(src, ResolvedIds(src, ids)[k])]
    IN  CASE src = 3 -> PyDict([PubmedArticle |-> recs[1]])
          [] src = 4 -> EmptyDict
          [] OTHER   -> PyDict([PubmedArticle |-> PyList(recs)])

-----------------------------------------------------------------------------
(* fetch_paper_details: lines 63-89 *)

Min(a, b) == IF a < b THEN a ELSE b

\* pmids[i:i+batch_size] with the end one too far: chunks overlap
batch_of_overlapping(ids, offset) == SubSeq(ids, offset + 1, Min(offset + batch_size + 1, Len(ids)))

\* Line 72: pmids[i:i+batch_size]
batch_of(ids, offset) == SubSeq(ids, offset + 1, Min(offset + batch_size, Len(ids)))

\* a failed batch ends the loop
next_offset_stop_on_error(offset, failed, n) == IF failed THEN n ELSE offset + batch_size

\* Lines 71 and 85-87: the except clause falls through to the next iteration
next_offset(offset, failed, n) == offset + batch_size

\* Lines 78-80
articles_of(records) == AsList(DictGet(records, "PubmedArticle", PyList(<<>>)))

\* One iteration of the loop of lines 71-87.  `failed`: efetch or read raised.
FetchBatch ==
    /\ stage = "Fetching"
    /\ i < Len(pmids)
    /\ \E failed \in BOOLEAN :
         LET batch_pmids == batch_of(pmids, i) IN
         /\ fetch_calls' = Append(fetch_calls, [ids |-> batch_pmids, failed |-> failed])
         /\ papers_data' = IF failed THEN papers_data
                           ELSE papers_data \o articles_of(SourceResponse(source, batch_pmids))
         /\ log' = IF failed
                   THEN Append(log, [level |-> "error", event |-> "batch",
                                     id |-> PyInt(i \div batch_size + 1)])
                   ELSE log
         /\ i' = next_offset(i, failed, Len(pmids))
    /\ UNCHANGED <<stage, exit_code, pmids, source, pc, pidx, authors, aidx, row,
                   non_academic_authors_list, company_affiliations_list,
                   corresponding_author_email, has_non_academic_author, author_email,
                   results, fnVars>>

-----------------------------------------------------------------------------
(* main: lines 246-272, with search_pubmed: lines 49-61 *)

\* Lines 260-263.  The search raises (and search_pubmed returns []) or
\* yields n identifiers; identifier k is the k-th of the list.
Search ==
    /\ stage = "Searching"
    /\ \E failed \in BOOLEAN, n \in SearchSizes :
         /\ pmids' = IF failed THEN <<>> ELSE [k \in 1..n |-> k]
         /\ log' = IF failed
                   THEN Append(log, [level |-> "error", event |-> "search", id |-> PyNone])
                   ELSE log
         /\ IF failed \/ n = 0
            THEN stage' = "Done" /\ exit_code' = 0
            ELSE stage' = "Fetching" /\ exit_code' = exit_code
    /\ i' = 0
    /\ papers_data' = <<>>
    /\ UNCHANGED <<source, fetch_calls, pc, pidx, authors, aidx, row,
                   non_academic_authors_list, company_affiliations_list,
                   corresponding_author_email, has_non_academic_author, author_email,
                   results, fnVars>>

\* Lines 88-89 and 265-270: fetch_paper_details returns; main exits when
\* nothing was fetched, and calls process_papers otherwise.
FetchDone ==
    /\ stage = "Fetching"
    /\ i >= Len(pmids)
    /\ IF papers_data = <<>>
       THEN stage' = "Done" /\ exit_code' = 0 /\ pc' = pc
       ELSE stage' = "Processing" /\ exit_code' = exit_code /\ pc' = "paper"
    /\ UNCHANGED <<pmids, source, i, fetch_calls, papers_data, pidx, authors, aidx, row,
                   non_academic_authors_list, company_affiliations_list,
                   corresponding_author_email, has_non_academic_author, author_email,
                   results, log, fnVars>>

\* Line 272 and the end of main
Output ==
    /\ stage = "Processing"
    /\ pc = "returned"
    /\ stage' = "Done"
    /\ exit_code' = 0
    /\ UNCHANGED <<pmids, source, i, fetch_calls, procVars, fnVars>>

\* Line 270: an exception that left process_papers is caught nowhere in main
Crash ==
    /\ stage = "Processing"
    /\ pc = "raised"
    /\ stage' = "Crashed"
    /\ exit_code' = 1
    /\ UNCHANGED <<pmids, source, i, fetch_calls, procVars, fnVars>>

Init ==
    /\ stage = "Searching"
    /\ exit_code = -1
    /\ pmids = <<>>
    /\ source \in 1..NumSources
    /\ i = 0
    /\ fetch_calls = <<>>
    /\ ProcIdle
    /\ FnIdle

Next ==
    \/ Search
    \/ FetchBatch
    \/ FetchDone
    \/ PaperBegin
    \/ AuthorStep
    \/ PaperEnd
    \/ ProcessReturn
    \/ Output
    \/ Crash

Spec == Init /\ [][Next]_vars

-----------------------------------------------------------------------------
(* Claims about fetch_paper_details and main, checked under Spec *)

CeilDiv(n, d) == (n + d - 1) \div d

\* the k-th consecutive chunk of at most batch_size identifiers
Chunk(ids, k) ==
    [j \in 1..Min(batch_size, Len(ids) - (k - 1) * batch_size) |->
        ids[(k - 1) * batch_size + j]]

\* the records the source's answer to call k holds, in response order;
\* none when the call failed
RecordsOfCall(k) ==
    IF fetch_calls[k].failed THEN <<>>
    ELSE [j \in 1..Len(ResolvedIds(source, fetch_calls[k].ids)) |->
             SourceRecord(source, ResolvedIds(source, fetch_calls[k].ids)[j])]

RECURSIVE RecordsOfCalls(_)
RecordsOfCalls(n) == IF n = 0 THEN <<>> ELSE RecordsOfCalls(n - 1) \o RecordsOfCall(n)

FetchFinished == stage = "Fetching" /\ i >= Len(pmids)

\* C3: the calls issued are the consecutive chunks of at most batch_size
\* identifiers, each once and in order, ceil(N / batch_size) of them when the
\* loop ends; the list returned is the records of the calls that did not
\* fail, in call order and response order.
C3_OneCallPerChunk ==
    /\ \A k \in 1..Len(fetch_calls) :
          /\ fetch_calls[k].ids = Chunk(pmids, k)
          /\ Len(fetch_calls[k].ids) \in 1..batch_size
    /\ stage = "Fetching" =>
          /\ i = Len(fetch_calls) * batch_size
          /\ papers_data = RecordsOfCalls(Len(fetch_calls))
    /\ (FetchFinished \/ stage \in {"Processing", "Crashed"}) =>
          Len(fetch_calls) = CeilDiv(Len(pmids), batch_size)
    /\ stage = "Done" =>
          Len(fetch_calls) = CeilDiv(Len(pmids), batch_size)

C3_Witness ==
    /\ FetchFinished
    /\ Len(pmids) % batch_size # 0
    /\ Len(fetch_calls) = 3
    /\ ~fetch_calls[1].failed
    /\ fetch_calls[2].failed
    /\ ~fetch_calls[3].failed
    /\ source = 6
    /\ Len(papers_data) = Len(pmids) - batch_size

OnePerIdentifier(k) ==
    Len(articles_of(SourceResponse(source, fetch_calls[k].ids))) = Len(fetch_calls[k].ids)

\* 250 identifiers were found, the fetch loop is over, the call for chunk 2
\* failed and every other call answered with one record per identifier
Scenario5 ==
    /\ Len(pmids) = 250
    /\ stage # "Searching"
    /\ ~(stage = "Fetching" /\ i < Len(pmids))
    /\ Len(fetch_calls) >= 2
    /\ fetch_calls[2].failed
    /\ \A k \in 1..Len(fetch_calls) :
          k # 2 => (~fetch_calls[k].failed /\ OnePerIdentifier(k))

\* C4 as stated: with 250 identifiers, chunk 2 of 3 failing and one record
\* per identifier otherwise, 200 records are returned and process_papers is
\* called on them.
C4_TwoHundredRecords ==
    Scenario5 =>
        /\ Len(papers_data) = 200
        /\ stage # "Fetching" => (stage \in {"Processing", "Done", "Crashed"} /\ pc # "idle")

\* C4 amended: the three chunks hold 100, 100 and 50 identifiers, so with
\* chunk 2 failing 150 records are returned and process_papers is called on
\* them.
C4_OneHundredFiftyRecords ==
    Scenario5 =>
        /\ Len(fetch_calls) = 3
        /\ Len(fetch_calls[1].ids) = 100
        /\ Len(fetch_calls[2].ids) = 100
        /\ Len(fetch_calls[3].ids) = 50
        /\ Len(papers_data) = 150
        /\ stage # "Fetching" => (stage \in {"Processing", "Done", "Crashed"} /\ pc # "idle")

C4_Witness ==
    /\ Scenario5
    /\ stage = "Processing"
    /\ pc = "paper"
    /\ pidx = 4
    /\ Len(papers_data) = 150
    /\ Len(results) > 0

\* C9: a run never ends otherwise than in Done with exit status 0; the
\* stages come in order; no identifiers means no fetch call, no records
\* means no paper processed.
C9_RunEndsInDone ==
    /\ stage # "Crashed"
    /\ exit_code # -1 => (stage = "Done" /\ exit_code = 0)
    /\ stage = "Searching" => (pmids = <<>> /\ fetch_calls = <<>> /\ pc = "idle")
    /\ stage = "Fetching" => (pmids # <<>> /\ pc = "idle")
    /\ stage = "Processing" => (pmids # <<>> /\ papers_data # <<>> /\ pc # "idle")
    /\ (stage = "Done" /\ pmids = <<>>) => (fetch_calls = <<>> /\ pc = "idle")
    /\ (stage = "Done" /\ papers_data = <<>>) => pc = "idle"
    /\ (stage = "Done" /\ papers_data # <<>>) => pc = "returned"

====
